---- MODULE Spec2Model ----
(***************************************************************************)
(* Model of the chat session hook (useChatSession) of the Nestle chatbot   *)
(* front end: session identity in React state and in sessionStorage, the   *)
(* conversation history, and the asynchronous operations sendMessage,      *)
(* createSession, loadConversationHistory, resetConversation and the       *)
(* mount effect.  Every network await is a point where other handlers may  *)
(* run; the code between two awaits runs as one step.                      *)
(* Further parts: the WebSocket client (reconnect, send, dispatch), the    *)
(* chat request body, and the message renderer's reference deduplication,  *)
(* header linking and list grouping, the message parser's inline           *)
(* formatting and line classification, withRetry, and the chat widget's    *)
(* open/collapse/close states.                                             *)
(***************************************************************************)
EXTENDS Naturals, Integers, Sequences, FiniteSets, TLC

\* ------------------------------------------------------------------ bounds
MaxCalls == 2       \* sendMessage invocations over the life of the tab
MaxResets == 1      \* resetConversation invocations
MaxLoads == 1       \* page loads after the first one (same tab)
MaxAssigned == 1    \* chat responses that carry a server-assigned new id

None == 0           \* JS null / absent session id
Calls == 1..MaxCalls
Resets == 1..MaxResets

VARIABLES
    sessionId,            \* useState(null)
    conversationHistory,  \* useState([])
    isLoading,            \* useState(false)
    error,                \* useState(null): "" stands for null
    storage,              \* sessionStorage: [sid, flag]
    mounted,              \* the mount effect of this page load has run
    send,                 \* the sendMessage invocations
    reset,                \* the resetConversation invocations
    hist,                 \* the loadConversationHistory invocation of the mount effect
    nextCall,             \* next unused sendMessage invocation
    nextSid,              \* next session id the server hands out
    assigned,             \* chat responses that carried a new id so far
    loads,                \* page loads after the first
    ev                    \* the step just taken, with the state it started from

sessionVars == <<sessionId, conversationHistory, isLoading, error, storage, mounted,
                 send, reset, hist, nextCall, nextSid, assigned, loads, ev>>

\* The WebSocket client (services/api.js, class WebSocketClient)
VARIABLES
    ws,                   \* this.ws: the socket the client refers to (0: null)
    reconnectAttempts,    \* this.reconnectAttempts
    listeners,            \* this.listeners: type -> callbacks in insertion order
    sockets,              \* the WebSocket objects created so far
    timers,               \* pending setTimeout callbacks of handleReconnect (bag of delays)
    nextSocket,           \* next unused socket
    connects,             \* explicit connect() calls so far
    wsev                  \* the client step just taken

wsVars == <<ws, reconnectAttempts, listeners, sockets, timers, nextSocket, connects,
            wsev>>

\* The message renderer (MessageBubble.jsx, lib/utils/messageFormatter.js)
VARIABLES
    references,           \* the references prop of a message
    uniqueReferences,     \* deduplicateReferences(references)
    headerText,           \* the header being linked
    headerUrl,            \* findSourceUrlForHeader(headerText)
    segments,             \* the line-classified segments of a message
    grouped               \* groupListItems(segments)

renderVars == <<references, uniqueReferences, headerText, headerUrl, segments, grouped>>

\* The chat request of sendMessage (useChatSession and ApiClient.sendChatMessage)
VARIABLES
    chatCall,             \* the arguments sendMessage works with
    requestBody           \* the body of the POST /chat/search request it makes

requestVars == <<chatCall, requestBody>>

\* The message parser (lib/utils/messageFormatter.js)
VARIABLES
    lines,                \* the lines of the message content parsed so far
    inlineTokens,         \* the pieces of the inline text being formatted
    inlineSpans           \* parseBoldAndLinks of their concatenation

sourceVars == <<lines>>
inlineVars == <<inlineTokens, inlineSpans>>

\* withRetry (utils/messageFormatter.js)
VARIABLES
    retry                 \* one withRetry call: options, position, what it did so far

retryVars == <<retry>>

\* The chat widget (components/chat/ChatBot.jsx and ChatWindow.jsx)
VARIABLES
    chatState,            \* ChatBot: useState('circle')
    resetTrigger,         \* ChatBot: useState(0)
    stateTimer,           \* the pending setTimeout(() => setState(x), 400) ("" if none)
    chatWindow,           \* the mounted ChatWindow and its refs (mounted FALSE: none)
    widget                \* what the widget did so far: closes, resets, deletes

widgetVars == <<chatState, resetTrigger, stateTimer, chatWindow, widget>>

earlyVars == <<sessionVars, wsVars, renderVars, requestVars>>
lateVars == <<sourceVars, inlineVars, retryVars, widgetVars>>

nonSessionVars == <<wsVars, renderVars, requestVars, lateVars>>
nonWsVars == <<sessionVars, renderVars, requestVars, lateVars>>
nonRenderVars == <<sessionVars, wsVars, requestVars, lateVars>>
nonRequestVars == <<sessionVars, wsVars, renderVars, lateVars>>
nonInlineVars == <<earlyVars, sourceVars, retryVars, widgetVars>>
nonRetryVars == <<earlyVars, sourceVars, inlineVars, widgetVars>>
nonWidgetVars == <<earlyVars, sourceVars, inlineVars, retryVars>>

vars == <<earlyVars, lateVars>>

\* ------------------------------------------- WebSocket client: constants
MaxSockets == 6     \* WebSocket objects created over a run
MaxConnects == 2    \* explicit connect() calls

maxReconnectAttempts == 5
reconnectDelay == 1000

MessageTypes == {"chat_response", "typing"}
\* the callbacks a caller may register; ThrowingCallbacks raise when invoked
Callbacks == {1, 2}
ThrowingCallbacks == {2}
ConversationIds == {"", "conv1"}     \* "" stands for null

NoSocket == [readyState |-> "NONE", cid |-> "", byDisconnect |-> FALSE]
ClosedSocket == [readyState |-> "CLOSED", cid |-> "", byDisconnect |-> FALSE]

EmptyBag == [d \in {} |-> 0]
BagAdd(b, d) ==
    [x \in (DOMAIN b) \cup {d} |-> IF x \in DOMAIN b THEN (IF x = d THEN b[x] + 1 ELSE b[x]) ELSE 1]
BagRemove(b, d) ==
    [x \in {y \in DOMAIN b : y # d \/ b[y] > 1} |-> IF x = d THEN b[x] - 1 ELSE b[x]]

WsPre == [ws |-> ws, reconnectAttempts |-> reconnectAttempts,
          readyState |-> IF ws = 0 THEN "NONE" ELSE sockets[ws].readyState]

\* the client step taken: the operation, the socket it concerns (for send: the
\* socket the message was handed to, 0 if none), whether it scheduled a
\* reconnect and with which delay, whether the socket had been closed by
\* disconnect(), the error thrown, the dispatch made; target is the
\* conversation id of the latest connect(conversationId) call
WsEvent(op, id, scheduled, delay, byDisc, err, dispatch) ==
    [op |-> op, id |-> id, scheduled |-> scheduled, delay |-> delay,
     byDisconnect |-> byDisc, err |-> err, dispatch |-> dispatch, pre |-> WsPre,
     target |-> wsev.target]

NoDispatch == [type |-> "", invoked |-> <<>>, raised |-> FALSE]

\* the WebSocketClient constructor
WsInit ==
    /\ ws = 0
    /\ reconnectAttempts = 0
    /\ listeners = [t \in MessageTypes |-> <<>>]
    /\ sockets = [k \in 1..MaxSockets |-> NoSocket]
    /\ timers = EmptyBag
    /\ nextSocket = 1
    /\ connects = 0
    /\ wsev = [op |-> "init", id |-> 0, scheduled |-> FALSE, delay |-> 0,
               byDisconnect |-> FALSE, err |-> "", dispatch |-> NoDispatch,
               pre |-> [ws |-> 0, reconnectAttempts |-> 0, readyState |-> "NONE"],
               target |-> ""]

\* no message is being rendered
RenderInit ==
    /\ references = <<>>
    /\ uniqueReferences = <<>>
    /\ headerText = ""
    /\ headerUrl = "null"
    /\ segments = <<>>
    /\ grouped = <<>>

\* no content is being parsed
SourceInit == lines = <<>>

InlineInit ==
    /\ inlineTokens = <<>>
    /\ inlineSpans = <<>>

\* ------------------------------------------------------------ withRetry
MaxAttempts == 3    \* largest maxAttempts option tried

NoError == [message |-> "", status |-> 0]
NoOptions == [maxAttempts |-> 0, delay |-> 0, backoff |-> FALSE, onRetry |-> FALSE]

\* no withRetry call has been made
RetryInit ==
    retry = [pc |-> "idle", options |-> NoOptions, attempt |-> 0, calls |-> 0,
             errors |-> <<>>, waits |-> <<>>, onRetryCalls |-> <<>>,
             result |-> "", thrown |-> NoError]

\* ----------------------------------------------------------- chat widget
MaxCloses == 3      \* handleClose calls
MaxWindowSends == 3 \* messages sent in one ChatWindow

\* no ChatWindow is mounted; sent: the messages its session hook has sent
\* (its session is active once one was sent)
NoChatWindow == [mounted |-> FALSE, previousResetTrigger |-> 0, isInitialMount |-> TRUE,
                 sent |-> 0]

\* ChatBot's first render: the floating button
WidgetInit ==
    /\ chatState = "circle"
    /\ resetTrigger = 0
    /\ stateTimer = ""
    /\ chatWindow = NoChatWindow
    /\ widget = [closes |-> 0, resets |-> 0, deletes |-> 0, closedSession |-> FALSE]

\* ------------------------------------------------- the chat request body
\* a location as the geolocation hook hands it over: null, an object without
\* coords, or an object with coords (whole degrees)
Latitudes == {0, 43, -33}
Longitudes == {0, -79, 151}
Locations ==
    {[kind |-> "null", latitude |-> 0, longitude |-> 0],
     [kind |-> "nocoords", latitude |-> 0, longitude |-> 0]}
        \cup {[kind |-> "coords", latitude |-> la, longitude |-> lo] :
                 la \in Latitudes, lo \in Longitudes}
Queries == {"hi", "recipes", "stores near me", "where to buy"}
SessionIds == {0, 1, 2}

\* a JS object without own properties
EmptyObject == [k \in {} |-> 0]
\* JS null for userLocationData
NoLocationData == [present |-> FALSE, lat |-> 0, lon |-> 0]

\* sendMessage: let userLocationData = null; if (location && location.coords &&
\* location.coords.latitude && location.coords.longitude) { lat, lon }
userLocationData(location) ==
    IF location.kind = "coords" /\ location.latitude # 0 /\ location.longitude # 0
    THEN [present |-> TRUE, lat |-> location.latitude, lon |-> location.longitude]
    ELSE NoLocationData

\* ApiClient.sendChatMessage(message, sessionId = null, filters = {}): the body
\* is { query, ...filters } plus session_id when sessionId is truthy
sendChatMessage(message, sid, filters) ==
    [query |-> message, session_id |-> sid, rest |-> filters]

\* no sendMessage call has reached its chat request
RequestInit ==
    /\ chatCall = [made |-> FALSE, message |-> "", sessionId |-> 0,
                   location |-> [kind |-> "null", latitude |-> 0, longitude |-> 0],
                   userLocationData |-> NoLocationData]
    /\ requestBody = sendChatMessage("", 0, EmptyObject)

\* sendMessage(message, location) at its chat request, currentSessionId being
\* sid: apiClient.sendChatMessage(message, currentSessionId, {}, userLocationData),
\* a call with four arguments of a function with three parameters
ChatRequest(message, sid, location) ==
    /\ chatCall' = [made |-> TRUE, message |-> message, sessionId |-> sid,
                    location |-> location, userLocationData |-> userLocationData(location)]
    /\ requestBody' = sendChatMessage(message, sid, EmptyObject)
    /\ UNCHANGED nonRequestVars

NextRequest ==
    \E message \in Queries, sid \in SessionIds, location \in Locations :
        ChatRequest(message, sid, location)

\* --------------------------------------------------- errors of request()
\* An error of apiClient.request: status 0 is a rejected fetch, otherwise the
\* HTTP status of a non-ok response with the detail of its JSON body ("" when
\* the body has none).
StatusStr(status) ==
    CASE status = 404 -> "404"
      [] status = 500 -> "500"
      [] OTHER -> "0"

StatusText(status) ==
    CASE status = 404 -> "Not Found"
      [] status = 500 -> "Internal Server Error"
      [] OTHER -> ""

\* error.message as request() builds it
ErrMessage(e) ==
    IF e.status = 0 THEN "Failed to fetch"
    ELSE IF e.detail # "" THEN e.detail
    ELSE "HTTP " \o StatusStr(e.status) \o ": " \o StatusText(e.status)

\* String.prototype.includes
Includes(s, t) ==
    \E i \in 1..(Len(s) + 1 - Len(t)) : SubSeq(s, i, i + Len(t) - 1) = t

\* variant: only the status code is looked for
IsSessionNotFound_only404(msg) == Includes(msg, "404")

\* the test of loadConversationHistory's catch block
IsSessionNotFound(msg) == Includes(msg, "404") \/ Includes(msg, "not found")

NetworkError == [status |-> 0, detail |-> ""]
ServerError == [status |-> 500, detail |-> ""]
NotFoundPlain == [status |-> 404, detail |-> ""]
NotFoundDetail == [status |-> 404, detail |-> "Session not found"]

SendErrors == {ServerError}
HistoryErrors == {NetworkError, ServerError, NotFoundPlain, NotFoundDetail}

\* ------------------------------------------------------------- messages
userMessage(c) == [role |-> "user", turn |-> c]
assistantMessage(c) == [role |-> "assistant", turn |-> c]
\* transcripts GET /chat/sessions/{id}/history may return (turn 0: an earlier page)
ServerTranscripts ==
    { <<>>, <<userMessage(0), assistantMessage(0)>> }

\* -------------------------------------------------------- sessionStorage
setReloadFlag(st) == [st EXCEPT !.flag = TRUE]
clearReloadFlag(st) == [st EXCEPT !.flag = FALSE]
isPageReload(st) == st.flag = TRUE
\* variant: the removeItem branch is missing
saveSessionId_keepsOnNull(st, id) == IF id # None THEN [st EXCEPT !.sid = id] ELSE st

saveSessionId(st, id) == [st EXCEPT !.sid = id]

\* loadSessionId: the storage it leaves and the id it returns (and sets)
loadSessionId(st) ==
    IF isPageReload(st)
    THEN [storage |-> clearReloadFlag([st EXCEPT !.sid = None]), id |-> None]
    ELSE [storage |-> st, id |-> st.sid]

\* ---------------------------------------------------------------- steps
Pre == [sessionId |-> sessionId, stored |-> storage.sid, flag |-> storage.flag,
        history |-> conversationHistory]

\* the step taken: the operation, the invocation it belongs to, the session id
\* its request carried and the one its response carried, whether the history
\* still is the one its user message went into, the error it threw
Event(op, id, rsid, msg) ==
    [op |-> op, id |-> id, sent |-> IF id \in Calls THEN send[id].reqSid ELSE None,
     kept |-> IF id \in Calls THEN ~send[id].cleared ELSE TRUE,
     rsid |-> rsid, err |-> msg, pre |-> Pre]

\* One sendMessage invocation: where it is (pc) and, while it is pending, its
\* local currentSessionId, the closure's sessionId it started with, whether it
\* issued a createSession request and the id that returned, the invocations
\* whose createSession was pending when it started, the session id its chat
\* request carries, and whether the history was replaced after its user
\* message.  pc "done" is a resolved promise, "failed" a rejected one.
IdleSend == [pc |-> "idle", currentSessionId |-> None, startSid |-> None,
             created |-> FALSE, createdSid |-> None, concurrent |-> {},
             reqSid |-> None, requested |-> FALSE, cleared |-> FALSE]
Settled(outcome) == [IdleSend EXCEPT !.pc = outcome]
IdleReset == [pc |-> "idle", sid |-> None, threw |-> FALSE]
IdleHist == [pc |-> "idle", sid |-> None, status |-> 0, threw |-> FALSE]

Range(s) == {s[i] : i \in 1..Len(s)}

\* variant: the session check is skipped
NeedsSession_never(sid) == FALSE

\* sendMessage: if (!currentSessionId)
NeedsSession(sid) == sid = None

\* variant: the response's session id is ignored
responseChangesSession_never(rsid, cur) == FALSE

\* sendMessage: if (response.session_id && response.session_id !== currentSessionId)
responseChangesSession(rsid, cur) == rsid # None /\ rsid # cur

\* a history replacement forgets the optimistic messages of the pending sends;
\* a send still creating its session has none yet, but is marked as overtaken
\* until it appends its user message
MarkCleared(s) ==
    [c \in Calls |-> IF s[c].pc \in {"creating", "chatting"}
                     THEN [s[c] EXCEPT !.cleared = TRUE] ELSE s[c]]

SessionInit ==
    /\ sessionId = None
    /\ conversationHistory = <<>>
    /\ isLoading = FALSE
    /\ error = ""
    /\ storage = [sid |-> None, flag |-> FALSE]
    /\ mounted = FALSE
    /\ send = [c \in Calls |-> IdleSend]
    /\ reset = [r \in Resets |-> IdleReset]
    /\ hist = IdleHist
    /\ nextCall = 1
    /\ nextSid = 1
    /\ assigned = 0
    /\ loads = 0
    /\ ev = [op |-> "init", id |-> 0, sent |-> None, kept |-> TRUE, rsid |-> None, err |-> "",
             pre |-> [sessionId |-> None, stored |-> None, flag |-> FALSE, history |-> <<>>]]

Init ==
    /\ SessionInit /\ WsInit /\ RenderInit /\ RequestInit
    /\ SourceInit /\ InlineInit /\ RetryInit /\ WidgetInit

SpecRequest == Init /\ [][NextRequest]_vars

\* The mount effect: initializeSession up to its await.
Mount ==
    /\ ~mounted
    /\ LET loaded == loadSessionId(setReloadFlag(storage))
       IN /\ storage' = loaded.storage
          /\ IF loaded.id # None
             THEN /\ sessionId' = loaded.id
                  /\ hist' = [IdleHist EXCEPT !.pc = "loading", !.sid = loaded.id]
             ELSE UNCHANGED <<sessionId, hist>>
    /\ mounted' = TRUE
    /\ ev' = Event("mount", 0, None, "")
    /\ UNCHANGED <<conversationHistory, isLoading, error, send, reset,
                   nextCall, nextSid, assigned, loads>>
    /\ UNCHANGED nonSessionVars

\* sendMessage up to its first await: the createSession request when the
\* closure holds no session id, the chat request otherwise.
SendStart(c) ==
    /\ mounted
    /\ c = nextCall
    /\ nextCall <= MaxCalls
    /\ nextCall' = nextCall + 1
    /\ isLoading' = TRUE
    /\ error' = ""
    /\ IF NeedsSession(sessionId)
       THEN /\ send' = [send EXCEPT ![c] =
                   [IdleSend EXCEPT !.pc = "creating", !.created = TRUE,
                        !.concurrent = {d \in Calls : send[d].pc = "creating"}]]
            /\ UNCHANGED conversationHistory
       ELSE /\ send' = [send EXCEPT ![c] =
                   [IdleSend EXCEPT !.pc = "chatting", !.currentSessionId = sessionId,
                        !.startSid = sessionId, !.reqSid = sessionId, !.requested = TRUE]]
            /\ conversationHistory' = Append(conversationHistory, userMessage(c))
    /\ ev' = Event("sendStart", c, None, "")
    /\ UNCHANGED <<sessionId, storage, mounted, reset, hist, nextSid, assigned, loads>>
    /\ UNCHANGED nonSessionVars

\* createSession resolves inside sendMessage: the id is stored, the user
\* message is appended and the chat request is issued.
CreateResolve(c) ==
    /\ send[c].pc = "creating"
    /\ sessionId' = nextSid
    /\ storage' = saveSessionId(storage, nextSid)
    /\ nextSid' = nextSid + 1
    /\ conversationHistory' = Append(conversationHistory, userMessage(c))
    /\ send' = [send EXCEPT ![c].pc = "chatting", ![c].currentSessionId = nextSid,
                            ![c].createdSid = nextSid, ![c].reqSid = nextSid,
                            ![c].requested = TRUE, ![c].cleared = FALSE]
    /\ ev' = Event("createOk", c, nextSid, "")
    /\ UNCHANGED <<isLoading, error, mounted, reset, hist, nextCall, assigned, loads>>
    /\ UNCHANGED nonSessionVars

\* variant: createSession swallows the error and returns null, sendMessage goes on
CreateFail_returnsNull(c, e) ==
    /\ send[c].pc = "creating"
    /\ error' = ErrMessage(e)
    /\ conversationHistory' = Append(conversationHistory, userMessage(c))
    /\ send' = [send EXCEPT ![c].pc = "chatting", ![c].requested = TRUE]
    /\ ev' = Event("createFail", c, None, ErrMessage(e))
    /\ UNCHANGED <<sessionId, isLoading, storage, mounted, reset, hist,
                   nextCall, nextSid, assigned, loads>>
    /\ UNCHANGED nonSessionVars

\* createSession rejects: it sets the error and rethrows; sendMessage's catch
\* sets the error again and rethrows, its finally clears the loading flag.
CreateFail(c, e) ==
    /\ send[c].pc = "creating"
    /\ error' = ErrMessage(e)
    /\ isLoading' = FALSE
    /\ send' = [send EXCEPT ![c] = Settled("failed")]
    /\ ev' = Event("createFail", c, None, ErrMessage(e))
    /\ UNCHANGED <<sessionId, conversationHistory, storage, mounted, reset, hist,
                   nextCall, nextSid, assigned, loads>>
    /\ UNCHANGED nonSessionVars

\* the session id a chat response may carry: none, the one sent, a new one
ResponseIds(c) ==
    {None, send[c].currentSessionId} \cup (IF assigned < MaxAssigned THEN {nextSid} ELSE {})

\* the chat request resolves
ChatResolve(c, rsid) ==
    /\ send[c].pc = "chatting"
    /\ rsid \in ResponseIds(c)
    /\ IF responseChangesSession(rsid, send[c].currentSessionId)
       THEN /\ sessionId' = rsid
            /\ storage' = saveSessionId(storage, rsid)
            /\ nextSid' = nextSid + 1
            /\ assigned' = assigned + 1
       ELSE UNCHANGED <<sessionId, storage, nextSid, assigned>>
    /\ send' = [send EXCEPT ![c] = Settled("done")]
    /\ conversationHistory' = Append(conversationHistory, assistantMessage(c))
    /\ isLoading' = FALSE
    /\ ev' = Event("chatOk", c, rsid, "")
    /\ UNCHANGED <<error, mounted, reset, hist, nextCall, loads>>
    /\ UNCHANGED nonSessionVars

\* variant: the catch block takes the optimistic user message back
ChatFail_rollback(c, e) ==
    /\ send[c].pc = "chatting"
    /\ error' = ErrMessage(e)
    /\ isLoading' = FALSE
    /\ conversationHistory' = SelectSeq(conversationHistory, LAMBDA m : m # userMessage(c))
    /\ send' = [send EXCEPT ![c] = Settled("failed")]
    /\ ev' = Event("chatFail", c, None, ErrMessage(e))
    /\ UNCHANGED <<sessionId, storage, mounted, reset, hist,
                   nextCall, nextSid, assigned, loads>>
    /\ UNCHANGED nonSessionVars

\* variant: the catch block drops the session
ChatFail_clearsSession(c, e) ==
    /\ send[c].pc = "chatting"
    /\ error' = ErrMessage(e)
    /\ isLoading' = FALSE
    /\ sessionId' = None
    /\ storage' = saveSessionId(storage, None)
    /\ send' = [send EXCEPT ![c] = Settled("failed")]
    /\ ev' = Event("chatFail", c, None, ErrMessage(e))
    /\ UNCHANGED <<conversationHistory, mounted, reset, hist,
                   nextCall, nextSid, assigned, loads>>
    /\ UNCHANGED nonSessionVars

\* the chat request rejects
ChatFail(c, e) ==
    /\ send[c].pc = "chatting"
    /\ error' = ErrMessage(e)
    /\ isLoading' = FALSE
    /\ send' = [send EXCEPT ![c] = Settled("failed")]
    /\ ev' = Event("chatFail", c, None, ErrMessage(e))
    /\ UNCHANGED <<sessionId, conversationHistory, storage, mounted, reset, hist,
                   nextCall, nextSid, assigned, loads>>
    /\ UNCHANGED nonSessionVars

\* variant: the finally block forgets the storage
ResetFinally_memoryOnly(r) ==
    /\ sessionId' = None
    /\ conversationHistory' = <<>>
    /\ UNCHANGED storage
    /\ send' = MarkCleared(send)
    /\ reset' = [reset EXCEPT ![r] = [IdleReset EXCEPT !.pc = "done", !.threw = FALSE]]

\* the finally block of resetConversation
ResetFinally(r) ==
    /\ sessionId' = None
    /\ conversationHistory' = <<>>
    /\ storage' = saveSessionId(storage, None)
    /\ send' = MarkCleared(send)
    /\ reset' = [reset EXCEPT ![r] = [IdleReset EXCEPT !.pc = "done", !.threw = FALSE]]

\* resetConversation up to its await (or to its end when no session is set)
ResetStart(r) ==
    /\ mounted
    /\ reset[r].pc = "idle"
    /\ \A q \in Resets : q < r => reset[q].pc # "idle"
    /\ IF sessionId # None
       THEN /\ reset' = [reset EXCEPT ![r].pc = "deleting", ![r].sid = sessionId]
            /\ ev' = Event("resetStart", r, None, "")
            /\ UNCHANGED <<sessionId, conversationHistory, storage, send>>
       ELSE /\ ResetFinally(r)
            /\ ev' = Event("resetDone", r, None, "")
    /\ UNCHANGED <<isLoading, error, mounted, hist, nextCall, nextSid, assigned, loads>>
    /\ UNCHANGED nonSessionVars

\* deleteSession resolves (ok) or rejects (swallowed)
ResetResolve(r, ok) ==
    /\ reset[r].pc = "deleting"
    /\ ResetFinally(r)
    /\ ev' = Event("resetDone", r, None, IF ok THEN "" ELSE ErrMessage(ServerError))
    /\ UNCHANGED <<isLoading, error, mounted, hist, nextCall, nextSid, assigned, loads>>
    /\ UNCHANGED nonSessionVars

\* The tab loads the page again (reload or navigation within the tab):
\* beforeunload clears the flag, the new document starts with fresh state and
\* the invocations of the old one, pending or finished, are gone with it;
\* sessionStorage is kept.
PageLoad ==
    /\ mounted
    /\ loads < MaxLoads
    /\ loads' = loads + 1
    /\ storage' = clearReloadFlag(storage)
    /\ sessionId' = None
    /\ conversationHistory' = <<>>
    /\ isLoading' = FALSE
    /\ error' = ""
    /\ mounted' = FALSE
    /\ send' = [c \in Calls |->
                  IF send[c].pc = "idle" THEN send[c] ELSE Settled("gone")]
    /\ reset' = [r \in Resets |->
                  IF reset[r].pc = "idle" THEN reset[r] ELSE [IdleReset EXCEPT !.pc = "gone"]]
    /\ hist' = IdleHist
    /\ ev' = Event("pageLoad", 0, None, "")
    /\ UNCHANGED <<nextCall, nextSid, assigned>>
    /\ UNCHANGED nonSessionVars

\* loadConversationHistory resolves: the history becomes the server's transcript
HistoryResolve(msgs) ==
    /\ hist.pc = "loading"
    /\ conversationHistory' = msgs
    /\ send' = MarkCleared(send)
    /\ hist' = [hist EXCEPT !.pc = "done", !.status = 200, !.threw = FALSE]
    /\ ev' = Event("historyOk", 0, None, "")
    /\ UNCHANGED <<sessionId, isLoading, error, storage, mounted, reset, nextCall,
                   nextSid, assigned, loads>>
    /\ UNCHANGED nonSessionVars

\* loadConversationHistory's catch block: a not-found error clears the session
HistoryFail(e) ==
    /\ hist.pc = "loading"
    /\ IF IsSessionNotFound(ErrMessage(e))
       THEN /\ sessionId' = None
            /\ storage' = saveSessionId(storage, None)
            /\ conversationHistory' = <<>>
            /\ send' = MarkCleared(send)
       ELSE UNCHANGED <<sessionId, storage, conversationHistory, send>>
    /\ hist' = [hist EXCEPT !.pc = "done", !.status = e.status, !.threw = FALSE]
    /\ ev' = Event("historyFail", 0, None, ErrMessage(e))
    /\ UNCHANGED <<isLoading, error, mounted, reset, nextCall, nextSid, assigned, loads>>
    /\ UNCHANGED nonSessionVars

Next ==
    \/ Mount
    \/ PageLoad
    \/ \E c \in Calls : SendStart(c)
    \/ \E c \in Calls : CreateResolve(c)
    \/ \E c \in Calls, e \in SendErrors : CreateFail(c, e)
    \/ \E c \in Calls, rsid \in 0..(MaxCalls + MaxAssigned + 1) : ChatResolve(c, rsid)
    \/ \E c \in Calls, e \in SendErrors : ChatFail(c, e)
    \/ \E r \in Resets : ResetStart(r)
    \/ \E r \in Resets, ok \in BOOLEAN : ResetResolve(r, ok)

Spec == Init /\ [][Next]_vars

\* loadConversationHistory(S) as the mount effect calls it when loadSessionId
\* returns a stored id S: S is the active id and its history fetch is pending.
InitHistory ==
    /\ WsInit
    /\ RenderInit
    /\ RequestInit
    /\ SourceInit /\ InlineInit /\ RetryInit /\ WidgetInit
    /\ sessionId = 1
    /\ conversationHistory = <<>>
    /\ isLoading = FALSE
    /\ error = ""
    /\ storage = [sid |-> 1, flag |-> TRUE]
    /\ mounted = TRUE
    /\ send = [c \in Calls |-> IdleSend]
    /\ reset = [r \in Resets |-> IdleReset]
    /\ hist = [IdleHist EXCEPT !.pc = "loading", !.sid = 1]
    /\ nextCall = 1
    /\ nextSid = 2
    /\ assigned = 0
    /\ loads = 0
    /\ ev = [op |-> "restore", id |-> 0, sent |-> None, kept |-> TRUE, rsid |-> None, err |-> "",
             pre |-> [sessionId |-> None, stored |-> 1, flag |-> TRUE, history |-> <<>>]]

NextHistory ==
    \/ \E msgs \in ServerTranscripts : HistoryResolve(msgs)
    \/ \E e \in HistoryErrors : HistoryFail(e)
    \/ \E c \in Calls : SendStart(c)
    \/ \E c \in Calls : CreateResolve(c)
    \/ \E c \in Calls, e \in SendErrors : CreateFail(c, e)
    \/ \E c \in Calls, rsid \in 0..(MaxCalls + MaxAssigned + 1) : ChatResolve(c, rsid)
    \/ \E c \in Calls, e \in SendErrors : ChatFail(c, e)
    \/ \E r \in Resets : ResetStart(r)
    \/ \E r \in Resets, ok \in BOOLEAN : ResetResolve(r, ok)

SpecHistory == InitHistory /\ [][NextHistory]_vars

\* ============================================== WebSocket client: steps

\* connect(): a new socket for the URL of conversationId becomes this.ws
ConnectSocket(cid) ==
    /\ nextSocket <= MaxSockets
    /\ sockets' = [sockets EXCEPT ![nextSocket] =
                      [readyState |-> "CONNECTING", cid |-> cid, byDisconnect |-> FALSE]]
    /\ ws' = nextSocket
    /\ nextSocket' = nextSocket + 1

\* an explicit connect(conversationId) call
Connect(cid) ==
    /\ connects < MaxConnects
    /\ connects' = connects + 1
    /\ ConnectSocket(cid)
    /\ wsev' = [WsEvent("connect", nextSocket, FALSE, 0, FALSE, "", NoDispatch)
                   EXCEPT !.target = cid]
    /\ UNCHANGED <<reconnectAttempts, listeners, timers>>
    /\ UNCHANGED nonWsVars

\* ws.onopen
SocketOpen(k) ==
    /\ sockets[k].readyState = "CONNECTING"
    /\ sockets' = [sockets EXCEPT ![k].readyState = "OPEN"]
    /\ reconnectAttempts' = 0
    /\ wsev' = WsEvent("open", k, FALSE, 0, FALSE, "", NoDispatch)
    /\ UNCHANGED <<ws, listeners, timers, nextSocket, connects>>
    /\ UNCHANGED nonWsVars

\* variant: the delay doubles with every attempt
reconnectTimeout_exponential(attempt) == reconnectDelay * (2 ^ (attempt - 1))

\* handleReconnect: the setTimeout delay of attempt number attempt
reconnectTimeout(attempt) == reconnectDelay * attempt

\* variant: disconnect() has marked the socket, its close is ignored
shouldReconnect_unlessDisconnected(attempts, byDisc) ==
    attempts < maxReconnectAttempts /\ ~byDisc

\* handleReconnect: if (this.reconnectAttempts < this.maxReconnectAttempts)
shouldReconnect(attempts, byDisc) == attempts < maxReconnectAttempts

\* ws.onclose, which calls handleReconnect (a failed connection fires onerror,
\* which only rejects connect()'s promise, and then onclose)
SocketClose(k) ==
    /\ sockets[k].readyState \in {"CONNECTING", "OPEN", "CLOSING"}
    /\ sockets' = [sockets EXCEPT ![k] = ClosedSocket]
    /\ IF shouldReconnect(reconnectAttempts, sockets[k].byDisconnect)
       THEN /\ reconnectAttempts' = reconnectAttempts + 1
            /\ timers' = BagAdd(timers, reconnectTimeout(reconnectAttempts + 1))
            /\ wsev' = WsEvent("close", k, TRUE, reconnectTimeout(reconnectAttempts + 1),
                               sockets[k].byDisconnect, "", NoDispatch)
       ELSE /\ UNCHANGED <<reconnectAttempts, timers>>
            /\ wsev' = WsEvent("close", k, FALSE, 0, sockets[k].byDisconnect, "", NoDispatch)
    /\ UNCHANGED <<ws, listeners, nextSocket, connects>>
    /\ UNCHANGED nonWsVars

\* the delays handleReconnect can ask for
TimerDelays == {reconnectDelay * n : n \in 1..maxReconnectAttempts}

\* the setTimeout callback of handleReconnect: this.connect()
TimerFire(d) ==
    /\ d \in DOMAIN timers
    /\ timers' = BagRemove(timers, d)
    /\ ConnectSocket("")
    /\ wsev' = WsEvent("timer", nextSocket, FALSE, d, FALSE, "", NoDispatch)
    /\ UNCHANGED <<reconnectAttempts, listeners, connects>>
    /\ UNCHANGED nonWsVars

\* variant: the readyState test is missing
canSend_anySocket(w, state) == w # 0

\* send: if (this.ws && this.ws.readyState === WebSocket.OPEN)
canSend(w, state) == w # 0 /\ state = "OPEN"

\* send(message): the message goes to this.ws or the call throws; the client
\* keeps nothing of it either way
Send ==
    /\ IF canSend(ws, IF ws = 0 THEN "NONE" ELSE sockets[ws].readyState)
       THEN wsev' = WsEvent("send", ws, FALSE, 0, FALSE, "", NoDispatch)
       ELSE wsev' = WsEvent("send", 0, FALSE, 0, FALSE, "WebSocket is not connected",
                            NoDispatch)
    /\ UNCHANGED <<ws, reconnectAttempts, listeners, sockets, timers, nextSocket, connects>>
    /\ UNCHANGED nonWsVars

\* WebSocket.close(): an open or connecting socket starts closing
CloseCall(sock) ==
    IF sock.readyState \in {"CONNECTING", "OPEN"}
    THEN [sock EXCEPT !.readyState = "CLOSING", !.byDisconnect = TRUE]
    ELSE sock

\* disconnect()
Disconnect ==
    /\ IF ws # 0
       THEN sockets' = [sockets EXCEPT ![ws] = CloseCall(sockets[ws])]
       ELSE UNCHANGED sockets
    /\ ws' = 0
    /\ listeners' = [t \in MessageTypes |-> <<>>]
    /\ wsev' = WsEvent("disconnect", ws, FALSE, 0, FALSE, "", NoDispatch)
    /\ UNCHANGED <<reconnectAttempts, timers, nextSocket, connects>>
    /\ UNCHANGED nonWsVars

\* on(type, callback): Set.add keeps the insertion order and no duplicates
On(t, cb) ==
    /\ listeners' = [listeners EXCEPT ![t] =
                        IF cb \in Range(listeners[t]) THEN @ ELSE Append(@, cb)]
    /\ wsev' = WsEvent("on", cb, FALSE, 0, FALSE, "", NoDispatch)
    /\ UNCHANGED <<ws, reconnectAttempts, sockets, timers, nextSocket, connects>>
    /\ UNCHANGED nonWsVars

\* off(type, callback)
Off(t, cb) ==
    /\ listeners' = [listeners EXCEPT ![t] = SelectSeq(@, LAMBDA x : x # cb)]
    /\ wsev' = WsEvent("off", cb, FALSE, 0, FALSE, "", NoDispatch)
    /\ UNCHANGED <<ws, reconnectAttempts, sockets, timers, nextSocket, connects>>
    /\ UNCHANGED nonWsVars

\* inbound frames: text that is not JSON, the JSON value null, or an object
\* whose type is one listeners can be registered for, another one, or missing
Frames ==
    {[kind |-> "invalid", type |-> ""], [kind |-> "null", type |-> ""]}
        \cup {[kind |-> "object", type |-> t] : t \in MessageTypes \cup {"unknown", ""}}

RECURSIVE forEachListener_stopsAtThrow(_, _)
\* variant: one try/catch around the whole loop
forEachListener_stopsAtThrow(cbs, acc) ==
    IF cbs = <<>> THEN acc
    ELSE IF Head(cbs) \in ThrowingCallbacks
         THEN [acc EXCEPT !.invoked = Append(@, Head(cbs))]
         ELSE forEachListener_stopsAtThrow(Tail(cbs), [acc EXCEPT !.invoked = Append(@, Head(cbs))])

RECURSIVE forEachListener(_, _)
\* handleMessage: forEach over the callbacks of the type, each in its own try/catch
forEachListener(cbs, acc) ==
    IF cbs = <<>> THEN acc
    ELSE forEachListener(Tail(cbs), [acc EXCEPT !.invoked = Append(@, Head(cbs))])

\* handleMessage(data): destructuring null throws; otherwise the callbacks of
\* data.type, if the map has that key, are called
handleMessage(data, ls) ==
    IF data.kind = "null" THEN [type |-> "", invoked |-> <<>>, raised |-> TRUE]
    ELSE IF data.type \in DOMAIN ls
    THEN forEachListener(ls[data.type], [type |-> data.type, invoked |-> <<>>, raised |-> FALSE])
    ELSE [type |-> data.type, invoked |-> <<>>, raised |-> FALSE]

\* JSON.parse(event.data) throws on text that is not JSON
JSONparse(frame) == [threw |-> frame.kind = "invalid", data |-> frame]

\* ws.onmessage: JSON.parse and handleMessage inside one try block whose catch
\* logs the error and lets nothing escape
onmessage(frame, ls) ==
    LET parsed == JSONparse(frame)
        tried == IF parsed.threw THEN [type |-> "", invoked |-> <<>>, raised |-> TRUE]
                 ELSE handleMessage(parsed.data, ls)
    IN [tried EXCEPT !.raised = FALSE]

\* a frame arrives on an open socket
Receive(k, frame) ==
    /\ sockets[k].readyState = "OPEN"
    /\ wsev' = [WsEvent("message", k, FALSE, 0, FALSE, "", onmessage(frame, listeners))
                   EXCEPT !.err = frame.kind]
    /\ UNCHANGED <<ws, reconnectAttempts, listeners, sockets, timers, nextSocket, connects>>
    /\ UNCHANGED nonWsVars

NextWs ==
    \/ \E cid \in ConversationIds : Connect(cid)
    \/ \E k \in 1..MaxSockets : SocketOpen(k)
    \/ \E k \in 1..MaxSockets : SocketClose(k)
    \/ \E d \in TimerDelays : TimerFire(d)
    \/ Send
    \/ Disconnect

SpecWs == Init /\ [][NextWs]_vars

NextDispatch ==
    \/ \E cid \in ConversationIds : Connect(cid)
    \/ \E k \in 1..MaxSockets : SocketOpen(k)
    \/ \E t \in MessageTypes, cb \in Callbacks : On(t, cb)
    \/ \E t \in MessageTypes, cb \in Callbacks : Off(t, cb)
    \/ \E k \in 1..MaxSockets, frame \in Frames : Receive(k, frame)
    \/ Disconnect

SpecDispatch == Init /\ [][NextDispatch]_vars

\* ======================================= message rendering: references

MaxRefs == 3        \* references of a rendered message
MaxUrlRefs == 2     \* references of a message whose URLs are spellings of one page

\* ---------------------------------------------------- JS string methods
LowerChar(c) ==
    CASE c = "A" -> "a" [] c = "B" -> "b" [] c = "C" -> "c" [] c = "D" -> "d"
      [] c = "E" -> "e" [] c = "F" -> "f" [] c = "G" -> "g" [] c = "H" -> "h"
      [] c = "I" -> "i" [] c = "J" -> "j" [] c = "K" -> "k" [] c = "L" -> "l"
      [] c = "M" -> "m" [] c = "N" -> "n" [] c = "O" -> "o" [] c = "P" -> "p"
      [] c = "Q" -> "q" [] c = "R" -> "r" [] c = "S" -> "s" [] c = "T" -> "t"
      [] c = "U" -> "u" [] c = "V" -> "v" [] c = "W" -> "w" [] c = "X" -> "x"
      [] c = "Y" -> "y" [] c = "Z" -> "z" [] OTHER -> c

RECURSIVE toLowerCase(_)
toLowerCase(str) ==
    IF Len(str) = 0 THEN ""
    ELSE LowerChar(SubSeq(str, 1, 1)) \o toLowerCase(SubSeq(str, 2, Len(str)))

RECURSIVE trimStart(_)
trimStart(str) ==
    IF Len(str) > 0 /\ SubSeq(str, 1, 1) = " "
    THEN trimStart(SubSeq(str, 2, Len(str))) ELSE str

RECURSIVE trimEnd(_)
trimEnd(str) ==
    IF Len(str) > 0 /\ SubSeq(str, Len(str), Len(str)) = " "
    THEN trimEnd(SubSeq(str, 1, Len(str) - 1)) ELSE str

trim(str) == trimEnd(trimStart(str))

startsWith(str, prefix) ==
    Len(str) >= Len(prefix) /\ SubSeq(str, 1, Len(prefix)) = prefix

endsWith(str, suffix) ==
    Len(str) >= Len(suffix) /\ SubSeq(str, Len(str) - Len(suffix) + 1, Len(str)) = suffix

\* the positions of the one-character separator in str
Positions(str, sep) == {i \in 1..Len(str) : SubSeq(str, i, i) = sep}
First(S) == CHOOSE i \in S : \A j \in S : i <= j

RECURSIVE split(_, _)
\* str.split(sep) for a one-character separator
split(str, sep) ==
    IF Positions(str, sep) = {} THEN <<str>>
    ELSE LET i == First(Positions(str, sep))
         IN <<SubSeq(str, 1, i - 1)>> \o split(SubSeq(str, i + 1, Len(str)), sep)

\* ------------------------------------------------------------ references
\* a || b for strings ("" is the only falsy string; it also stands for an
\* absent property)
Or(a, b) == IF a # "" THEN a ELSE b

\* ref.url || ref.link || ref.source_url || ref.href || ''
refUrl(ref) == Or(ref.url, Or(ref.link, Or(ref.source_url, Or(ref.href, ""))))

\* normalized.replace(/^https?:\/\//, '')
stripProtocol(str) ==
    IF startsWith(str, "https://") THEN SubSeq(str, 9, Len(str))
    ELSE IF startsWith(str, "http://") THEN SubSeq(str, 8, Len(str))
    ELSE str

\* variant: the fragment is removed before the trailing slash
normalizeUrl_fragmentFirst(url) ==
    IF url = "" THEN ""
    ELSE LET lowered == trim(toLowerCase(url))
             noProtocol == stripProtocol(lowered)
             noWww == IF startsWith(noProtocol, "www.")
                      THEN SubSeq(noProtocol, 5, Len(noProtocol)) ELSE noProtocol
             noFragment == IF Positions(noWww, "#") # {}
                           THEN split(noWww, "#")[1] ELSE noWww
         IN IF endsWith(noFragment, "/")
            THEN SubSeq(noFragment, 1, Len(noFragment) - 1) ELSE noFragment

\* normalizeUrl(url): lower case and trim, then the protocol, a leading www.,
\* one trailing slash and last the fragment are removed, in this order
normalizeUrl(url) ==
    IF url = "" THEN ""
    ELSE LET lowered == trim(toLowerCase(url))
             noProtocol == stripProtocol(lowered)
             noWww == IF startsWith(noProtocol, "www.")
                      THEN SubSeq(noProtocol, 5, Len(noProtocol)) ELSE noProtocol
             noSlash == IF endsWith(noWww, "/")
                        THEN SubSeq(noWww, 1, Len(noWww) - 1) ELSE noWww
         IN IF Positions(noSlash, "#") # {} THEN split(noSlash, "#")[1] ELSE noSlash

\* variant: the reference keeps the id it came with
pushReference_keepsId(deduplicated, ref) == Append(deduplicated, ref)

\* deduplicated.push({ ...ref, id: deduplicated.length + 1 })
pushReference(deduplicated, ref) ==
    Append(deduplicated, [ref EXCEPT !.id = Len(deduplicated) + 1])

RECURSIVE forEachReference(_, _, _)
\* the forEach of deduplicateReferences over the references still to visit
forEachReference(refs, seen, deduplicated) ==
    IF refs = <<>> THEN deduplicated
    ELSE LET normalizedUrl == normalizeUrl(refUrl(Head(refs)))
         IN IF normalizedUrl # "" /\ normalizedUrl \notin seen
            THEN forEachReference(Tail(refs), seen \cup {normalizedUrl},
                                  pushReference(deduplicated, Head(refs)))
            ELSE forEachReference(Tail(refs), seen, deduplicated)

deduplicateReferences(refs) == forEachReference(refs, {}, <<>>)

\* words longer than three characters: str.split(' ').filter(word => word.length > 3)
keyWords(str) == SelectSeq(split(str, " "), LAMBDA word : Len(word) > 3)

\* headerWords.filter(word => words.includes(word)).length
countMatches(headerWords, words) ==
    Len(SelectSeq(headerWords, LAMBDA word : word \in Range(words)))

\* matches >= Math.min(2, headerWords.length * 0.6)
enoughMatches(matches, headerWords) ==
    matches >= 2 \/ 10 * matches >= 6 * Len(headerWords)

\* the section of a reference: ref.section || ref.section_title || ''
refSection(ref) == Or(ref.section, Or(ref.section_title, ""))

\* the value returned for a matching reference ("undefined" when it has no URL)
returnedUrl(ref) == IF refUrl(ref) = "" THEN "undefined" ELSE refUrl(ref)

exactMatch(ref, headerLower) ==
    toLowerCase(ref.title) = headerLower \/ toLowerCase(refSection(ref)) = headerLower

partialMatch(ref, headerLower) ==
    LET headerWords == keyWords(headerLower)
    IN \/ enoughMatches(countMatches(headerWords, keyWords(toLowerCase(ref.title))),
                        headerWords)
       \/ enoughMatches(countMatches(headerWords, keyWords(toLowerCase(refSection(ref)))),
                        headerWords)

RECURSIVE forEachCandidate(_, _)
\* the for loop of findSourceUrlForHeader: the first reference that matches
\* exactly or partially ends the search
forEachCandidate(refs, headerLower) ==
    IF refs = <<>> THEN "null"
    ELSE IF exactMatch(Head(refs), headerLower) THEN returnedUrl(Head(refs))
    ELSE IF partialMatch(Head(refs), headerLower) THEN returnedUrl(Head(refs))
    ELSE forEachCandidate(Tail(refs), headerLower)

\* findSourceUrlForHeader(headerText) over the references of the message
findSourceUrlForHeader(header, refs) ==
    IF header = "" THEN "null"
    ELSE forEachCandidate(refs, trim(toLowerCase(header)))

NoReference == [id |-> 0, title |-> "", section |-> "", section_title |-> "",
                url |-> "", link |-> "", source_url |-> "", href |-> ""]

\* references a chat response may list
ReferencePool ==
    {[NoReference EXCEPT !.title = "Chocolate Cake Ideas", !.url = "https://x.com/b"],
     [NoReference EXCEPT !.title = "chocolate cake recipes", !.url = "http://x.com/a"],
     [NoReference EXCEPT !.id = 7, !.title = "Baking", !.section = "Chocolate Cake Recipes",
                         !.url = "https://www.x.com/a/"],
     [NoReference EXCEPT !.title = "Contact"],
     [NoReference EXCEPT !.title = "Store Locator", !.link = "https://x.com/c"],
     [NoReference EXCEPT !.id = 3, !.title = "Top", !.url = "https://x.com/a/#top"]}

\* the headers of a rendered message
Headers == {"Chocolate Cake Recipes", "FAQ"}

\* spellings of the URL of one page: letter case, protocol, www., trailing
\* slash and fragment vary
UrlShapes ==
    [upper : BOOLEAN, protocol : {"", "http://", "https://"}, www : BOOLEAN,
     slash : BOOLEAN, fragment : BOOLEAN]

RenderUrl(shape) ==
    IF shape.upper
    THEN (CASE shape.protocol = "http://" -> "HTTP://"
            [] shape.protocol = "https://" -> "HTTPS://"
            [] OTHER -> "")
         \o (IF shape.www THEN "WWW." ELSE "") \o "X.COM/A"
         \o (IF shape.slash THEN "/" ELSE "") \o (IF shape.fragment THEN "#TOP" ELSE "")
    ELSE shape.protocol \o (IF shape.www THEN "www." ELSE "") \o "x.com/a"
         \o (IF shape.slash THEN "/" ELSE "") \o (IF shape.fragment THEN "#top" ELSE "")

UrlReference(shape) == [NoReference EXCEPT !.title = "Page", !.url = RenderUrl(shape)]

\* a message with one more reference is rendered: MessageBubble computes
\* uniqueReferences and links its header
AppendReference(ref) ==
    /\ references' = Append(references, ref)
    /\ uniqueReferences' = deduplicateReferences(references')
    /\ headerUrl' = findSourceUrlForHeader(headerText, references')
    /\ UNCHANGED <<headerText, segments, grouped>>
    /\ UNCHANGED nonRenderVars

AddReference(ref) ==
    /\ Len(references) < MaxRefs
    /\ AppendReference(ref)

AddUrlVariant(shape) ==
    /\ Len(references) < MaxUrlRefs
    /\ AppendReference(UrlReference(shape))

\* the message has another header text
RenderHeader(header) ==
    /\ headerText' = header
    /\ headerUrl' = findSourceUrlForHeader(header, references)
    /\ UNCHANGED <<references, uniqueReferences, segments, grouped>>
    /\ UNCHANGED nonRenderVars

NextRefs ==
    \/ \E ref \in ReferencePool : AddReference(ref)
    \/ \E header \in Headers : RenderHeader(header)

SpecRefs == Init /\ [][NextRefs]_vars

NextUrls == \E shape \in UrlShapes : AddUrlVariant(shape)

SpecUrls == Init /\ [][NextUrls]_vars

\* ===================================== message rendering: list grouping

MaxSegs == 5        \* classified lines of a message

\* the segment types parseMessageContent pushes, one per classified line
SegmentTypes == {"paragraph", "header", "numbered", "bullet", "linebreak"}

RECURSIVE scanBullets_stopsAtLinebreak(_, _, _)
\* variant: a linebreak ends the look-ahead
scanBullets_stopsAtLinebreak(segs, j, associatedBullets) ==
    IF j > Len(segs) THEN [j |-> j, bullets |-> associatedBullets]
    ELSE IF segs[j].type = "bullet"
         THEN scanBullets_stopsAtLinebreak(segs, j + 1, Append(associatedBullets, segs[j]))
         ELSE [j |-> j, bullets |-> associatedBullets]

RECURSIVE scanBullets(_, _, _)
\* the look-ahead of a numbered item from position j: linebreaks are skipped,
\* bullets collected, anything else ends it
scanBullets(segs, j, associatedBullets) ==
    IF j > Len(segs) THEN [j |-> j, bullets |-> associatedBullets]
    ELSE IF segs[j].type = "linebreak" THEN scanBullets(segs, j + 1, associatedBullets)
    ELSE IF segs[j].type = "bullet"
         THEN scanBullets(segs, j + 1, Append(associatedBullets, segs[j]))
         ELSE [j |-> j, bullets |-> associatedBullets]

RECURSIVE collectBullets(_, _, _)
\* a bullet group from position j on: directly consecutive bullets
collectBullets(segs, j, items) ==
    IF j <= Len(segs) /\ segs[j].type = "bullet"
    THEN collectBullets(segs, j + 1, Append(items, segs[j]))
    ELSE [j |-> j, items |-> items]

\* variant: the loop always goes on where the look-ahead ended
nextIndex_pastLookAhead(i, scan) == scan.j

\* if (associatedBullets.length > 0) i = j; else i++
nextIndex(i, scan) == IF scan.bullets # <<>> THEN scan.j ELSE i + 1

\* the numbered_group of a numbered segment (subItems <<>>: no subItems property)
numberedGroup(segment, associatedBullets) ==
    [type |-> "numbered_group",
     items |-> <<[type |-> segment.type, id |-> segment.id, subItems |-> associatedBullets]>>]

bulletGroup(items) == [type |-> "bullet_group", items |-> items]

RECURSIVE groupFrom(_, _, _)
\* the while loop of groupListItems from position i on
groupFrom(segs, i, out) ==
    IF i > Len(segs) THEN out
    ELSE IF segs[i].type = "numbered"
         THEN LET scan == scanBullets(segs, i + 1, <<>>)
              IN groupFrom(segs, nextIndex(i, scan),
                           Append(out, numberedGroup(segs[i], scan.bullets)))
    ELSE IF segs[i].type = "bullet"
         THEN LET run == collectBullets(segs, i + 1, <<segs[i]>>)
              IN groupFrom(segs, run.j, Append(out, bulletGroup(run.items)))
    ELSE groupFrom(segs, i + 1, Append(out, segs[i]))

groupListItems(segs) == groupFrom(segs, 1, <<>>)

\* parseMessageContent classifies one more line of the message and groups
\* the segments; id is the position of the segment
AddLine(type) ==
    /\ Len(segments) < MaxSegs
    /\ segments' = Append(segments, [type |-> type, id |-> Len(segments) + 1])
    /\ grouped' = groupListItems(segments')
    /\ UNCHANGED <<references, uniqueReferences, headerText, headerUrl>>
    /\ UNCHANGED nonRenderVars

NextGroup == \E type \in SegmentTypes : AddLine(type)

SpecGroup == Init /\ [][NextGroup]_vars

\* =================================== message rendering: inline formatting

MaxTokens == 4      \* pieces of one line of message text

\* str.slice(from - 1) and the test that s occurs in text at position i
Rest(text, from) == SubSeq(text, from, Len(text))
At(text, i, s) ==
    i >= 1 /\ i + Len(s) - 1 <= Len(text) /\ SubSeq(text, i, i + Len(s) - 1) = s

\* regex.exec found nothing; of a match: index is its first position, end the
\* position after it (regex.lastIndex), g2 and g3 its inner groups
NoMatch == [index |-> 0, end |-> 0, g2 |-> "", g3 |-> ""]

\* /(\[([^\]]+)\]\(([^)]+)\))/ tried at position i
linkAt(text, i) ==
    LET brackets == {j \in (i + 1)..Len(text) : At(text, j, "]")}
        j == First(brackets)
        parens == {k \in (j + 2)..Len(text) : At(text, k, ")")}
        k == First(parens)
    IN IF At(text, i, "[") /\ brackets # {} /\ j >= i + 2 /\ At(text, j + 1, "(")
          /\ parens # {} /\ k >= j + 3
       THEN [index |-> i, end |-> k + 1,
             g2 |-> SubSeq(text, i + 1, j - 1), g3 |-> SubSeq(text, j + 2, k - 1)]
       ELSE NoMatch

\* /(https?:\/\/[^\s]+)/ tried at position i; content and url are the match
urlAt(text, i) ==
    LET scheme == IF At(text, i, "https://") THEN "https://" ELSE "http://"
        from == i + Len(scheme)
        spaces == {j \in from..Len(text) : At(text, j, " ")}
        end == IF spaces = {} THEN Len(text) + 1 ELSE First(spaces)
    IN IF At(text, i, scheme) /\ from <= Len(text) /\ end > from
       THEN [index |-> i, end |-> end,
             g2 |-> SubSeq(text, i, end - 1), g3 |-> SubSeq(text, i, end - 1)]
       ELSE NoMatch

\* /(\*\*(.*?)\*\*)/ and /(__(.+?)__)/ tried at position i: the lazy group ends
\* at the first closing marker, least inner length 0 for bold, 1 for underline
markedAt(text, i, marker, least) ==
    LET closers == {j \in (i + 2 + least)..Len(text) : At(text, j, marker)}
        j == First(closers)
    IN IF At(text, i, marker) /\ closers # {}
       THEN [index |-> i, end |-> j + 2, g2 |-> SubSeq(text, i + 2, j - 1), g3 |-> ""]
       ELSE NoMatch

matchAt(type, text, i) ==
    CASE type = "link" -> linkAt(text, i)
      [] type = "url" -> urlAt(text, i)
      [] type = "bold" -> markedAt(text, i, "**", 0)
      [] type = "underline" -> markedAt(text, i, "__", 1)

\* regex.exec(text) with regex.lastIndex = from - 1: the leftmost match
exec(type, text, from) ==
    LET starts == {i \in from..Len(text) : matchAt(type, text, i) # NoMatch}
    IN IF starts = {} THEN NoMatch ELSE matchAt(type, text, First(starts))

\* formatPatterns, in order of precedence
formatPatterns == <<"link", "url", "bold", "underline">>

RECURSIVE parseFormattingRecursive(_, _)
RECURSIVE matched(_, _, _)
RECURSIVE whileExec(_, _, _, _)

\* the spans pushed for one match
matched(type, match, appliedFormats) ==
    IF type \in {"link", "url"}
    THEN <<[type |-> "link", content |-> match.g2, url |-> match.g3,
            appliedFormats |-> appliedFormats]>>
    ELSE LET innerContent == match.g2
             newFormats == Append(appliedFormats, type)
             innerSegments == parseFormattingRecursive(innerContent, newFormats)
         IN IF Len(innerSegments) = 1 /\ innerSegments[1].type = "text"
            THEN <<[type |-> type, content |-> innerContent, url |-> "",
                    appliedFormats |-> newFormats]>>
            ELSE innerSegments

\* the while loop over the matches of one pattern and the remaining text
whileExec(type, text, appliedFormats, lastIndex) ==
    LET match == exec(type, text, lastIndex)
    IN IF match = NoMatch
       THEN parseFormattingRecursive(Rest(text, lastIndex), appliedFormats)
       ELSE parseFormattingRecursive(SubSeq(text, lastIndex, match.index - 1),
                                     appliedFormats)
            \o matched(type, match, appliedFormats)
            \o whileExec(type, text, appliedFormats, match.end)

parseFormattingRecursive(text, appliedFormats) ==
    LET found == {p \in 1..Len(formatPatterns) :
                      exec(formatPatterns[p], text, 1) # NoMatch}
    IN IF text = "" THEN <<>>
       ELSE IF found # {}
       THEN whileExec(formatPatterns[First(found)], text, appliedFormats, 1)
       ELSE <<[type |-> IF appliedFormats # <<>>
                        THEN appliedFormats[Len(appliedFormats)] ELSE "text",
               content |-> text, url |-> "", appliedFormats |-> appliedFormats]>>

parseBoldAndLinks(text) ==
    IF text = "" THEN <<>> ELSE parseFormattingRecursive(text, <<>>)

\* the pieces a line of message text is put together from
PlainTokens == {"see ", " now"}
LinkTokens == {"[docs](u)"}
Tokens == PlainTokens \cup LinkTokens \cup {"**", "__", "http://x.co"}

RECURSIVE Concat(_)
Concat(tokens) ==
    IF tokens = <<>> THEN "" ELSE Head(tokens) \o Concat(Tail(tokens))

\* the line grows by one piece and is parsed
AppendToken(token) ==
    /\ Len(inlineTokens) < MaxTokens
    /\ inlineTokens' = Append(inlineTokens, token)
    /\ inlineSpans' = parseBoldAndLinks(Concat(inlineTokens'))
    /\ UNCHANGED nonInlineVars

NextInline == \E token \in Tokens : AppendToken(token)

SpecInline == Init /\ [][NextInline]_vars

\* =================================== message rendering: line classification

MaxLines == 3       \* lines of a message

\* the lines a message is put together from
SourceLines == {"", "  ", "---", "--", "text", "1. Step", "- item", "## Title", "****"}

RECURSIVE join(_, _)
\* the message content: its lines joined by sep
join(ls, sep) ==
    IF ls = <<>> THEN ""
    ELSE IF Len(ls) = 1 THEN ls[1]
    ELSE ls[1] \o sep \o join(Tail(ls), sep)

\* line.trim() === ''
isEmptyLine(line) == trim(line) = ""

\* line.trim().match(/^[-...]{3,}$/), for rules written with hyphens
isRule(line) ==
    LET t == trim(line)
    IN Len(t) >= 3 /\ \A i \in 1..Len(t) : At(t, i, "-")

\* line.match(/^(#{1,3})\s+(.+)$/)
headerMatch(line) ==
    \E k \in 1..3 :
        /\ \A i \in 1..k : At(line, i, "#")
        /\ At(line, k + 1, " ")
        /\ Len(line) >= k + 2

Digits == {"0", "1", "2", "3", "4", "5", "6", "7", "8", "9"}

\* line.match(/^[\s]*(\d+)[.)]\s+(.+)$/)
numberedMatch(line) ==
    LET t == trimStart(line)
        nonDigits == {i \in 1..Len(t) : SubSeq(t, i, i) \notin Digits}
        d == IF nonDigits = {} THEN Len(t) ELSE First(nonDigits) - 1
    IN /\ d >= 1
       /\ At(t, d + 1, ".") \/ At(t, d + 1, ")")
       /\ At(t, d + 2, " ")
       /\ Len(t) >= d + 3

\* line.match(/^[\s]*[-*...]\s+(.+)$/), for markers '-' and '*'
bulletMatch(line) ==
    LET t == trimStart(line)
    IN /\ At(t, 1, "-") \/ At(t, 1, "*")
       /\ At(t, 2, " ")
       /\ Len(t) >= 3

\* segments.push of a segment of the given type
push(st, type) ==
    [st EXCEPT !.segments = Append(@, [type |-> type, id |-> Len(@) + 1])]

\* variant: every empty line is counted as the first of its run
emptyLine_everyLine(st) ==
    IF Len(st.segments) > 0
    THEN [push(st, "linebreak") EXCEPT !.consecutiveEmptyLines = 1]
    ELSE [st EXCEPT !.consecutiveEmptyLines = 1]

\* the loop body for an empty line
emptyLine(st) ==
    LET count == st.consecutiveEmptyLines + 1
    IN IF count = 1 /\ Len(st.segments) > 0
       THEN [push(st, "linebreak") EXCEPT !.consecutiveEmptyLines = count]
       ELSE [st EXCEPT !.consecutiveEmptyLines = count]

\* the loop body for any other line
otherLine(st, line) ==
    LET counted == [st EXCEPT !.consecutiveEmptyLines = 0]
    IN IF isRule(line) THEN push(counted, "linebreak")
       ELSE IF headerMatch(line) THEN push(counted, "header")
       ELSE IF numberedMatch(line) THEN push(counted, "numbered")
       ELSE IF bulletMatch(line) THEN push(counted, "bullet")
       ELSE IF Len(parseBoldAndLinks(line)) > 0 THEN push(counted, "paragraph")
       ELSE counted

RECURSIVE forLines(_, _, _)
\* the for loop over the lines from index i
forLines(ls, i, st) ==
    IF i > Len(ls) THEN st
    ELSE forLines(ls, i + 1,
                  IF isEmptyLine(ls[i]) THEN emptyLine(st) ELSE otherLine(st, ls[i]))

\* the segments of parseMessageContent before they are grouped
classify(content) ==
    IF content = "" THEN <<>>
    ELSE forLines(split(content, "\n"), 1,
                  [segments |-> <<>>, consecutiveEmptyLines |-> 0]).segments

parseMessageContent(content) == groupListItems(classify(content))

\* the message grows by one line and is parsed
AddSourceLine(line) ==
    /\ Len(lines) < MaxLines
    /\ lines' = Append(lines, line)
    /\ segments' = classify(join(lines', "\n"))
    /\ grouped' = parseMessageContent(join(lines', "\n"))
    /\ UNCHANGED <<references, uniqueReferences, headerText, headerUrl>>
    /\ UNCHANGED <<sessionVars, wsVars, requestVars, inlineVars, retryVars, widgetVars>>

NextLines == \E line \in SourceLines : AddSourceLine(line)

SpecLines == Init /\ [][NextLines]_vars

\* ========================================================== chat widget

\* renderContent: the states in which ChatWindow is rendered
shouldShowChatWindow(state) ==
    state \in {"open", "collapsing", "collapsed", "expanding-from-rectangle"}

\* the resetTrigger effect of ChatWindow: resetConversation() when the trigger
\* grew and this is not the initial mount; the ref then takes the trigger
resetEffect(window, trigger, w) ==
    IF trigger > window.previousResetTrigger /\ ~window.isInitialMount
    THEN [window |-> [window EXCEPT !.previousResetTrigger = trigger, !.sent = 0],
          widget |-> [w EXCEPT !.resets = @ + 1,
                               !.deletes = @ + (IF window.sent > 0 THEN 1 ELSE 0)]]
    ELSE [window |-> [window EXCEPT !.previousResetTrigger = trigger], widget |-> w]

\* React commits the render of (state, trigger): a ChatWindow that is no
\* longer rendered is unmounted without running its effects; a new one runs
\* its mount effects in order (the session hook starts without session, the
\* resetTrigger effect, then the initialize effect clears isInitialMount); a
\* kept one runs the resetTrigger effect if the trigger changed
commit(state, trigger, window, w) ==
    IF ~shouldShowChatWindow(state) THEN [window |-> NoChatWindow, widget |-> w]
    ELSE IF ~window.mounted
    THEN LET fresh == resetEffect([NoChatWindow EXCEPT !.mounted = TRUE], trigger, w)
         IN [fresh EXCEPT !.window.isInitialMount = FALSE]
    ELSE IF trigger # window.previousResetTrigger THEN resetEffect(window, trigger, w)
    ELSE [window |-> window, widget |-> w]

\* handleClick on the floating button or the collapsed bar
HandleClick ==
    /\ chatState \in {"circle", "collapsed"}
    /\ chatState' = IF chatState = "circle" THEN "expanding" ELSE "expanding-from-rectangle"
    /\ stateTimer' = "open"
    /\ LET done == commit(chatState', resetTrigger, chatWindow, widget)
       IN chatWindow' = done.window /\ widget' = done.widget
    /\ UNCHANGED resetTrigger
    /\ UNCHANGED nonWidgetVars

\* handleCollapse, from the collapse button of the open window
HandleCollapse ==
    /\ chatState = "open"
    /\ chatState' = "collapsing"
    /\ stateTimer' = "collapsed"
    /\ LET done == commit(chatState', resetTrigger, chatWindow, widget)
       IN chatWindow' = done.window /\ widget' = done.widget
    /\ UNCHANGED resetTrigger
    /\ UNCHANGED nonWidgetVars

\* handleClose, from the close button of the open window: both state updates
\* are rendered together
HandleClose ==
    /\ chatState = "open"
    /\ widget.closes < MaxCloses
    /\ chatState' = "closing"
    /\ stateTimer' = "circle"
    /\ resetTrigger' = resetTrigger + 1
    /\ LET done == commit(chatState', resetTrigger',
                          chatWindow, [widget EXCEPT !.closes = @ + 1,
                                                     !.closedSession = chatWindow.sent > 0])
       IN chatWindow' = done.window /\ widget' = done.widget
    /\ UNCHANGED nonWidgetVars

\* the 400 ms timer of the animation sets the next state
StateTimerFires ==
    /\ stateTimer # ""
    /\ chatState' = stateTimer
    /\ stateTimer' = ""
    /\ LET done == commit(chatState', resetTrigger, chatWindow, widget)
       IN chatWindow' = done.window /\ widget' = done.widget
    /\ UNCHANGED resetTrigger
    /\ UNCHANGED nonWidgetVars

\* a message is sent in the open window: its session hook has an active session
WindowSend ==
    /\ chatState = "open"
    /\ chatWindow.mounted
    /\ chatWindow.sent < MaxWindowSends
    /\ chatWindow' = [chatWindow EXCEPT !.sent = @ + 1]
    /\ UNCHANGED <<chatState, resetTrigger, stateTimer, widget>>
    /\ UNCHANGED nonWidgetVars

NextWidget ==
    \/ HandleClick
    \/ HandleCollapse
    \/ HandleClose
    \/ StateTimerFires
    \/ WindowSend

SpecWidget == Init /\ [][NextWidget]_vars

\* ============================================================ withRetry

\* errors fn may reject with
RetryErrors ==
    {[message |-> "Failed to fetch", status |-> 0],
     [message |-> "Invalid API key", status |-> 401],
     [message |-> "Validation failed: query is empty", status |-> 0],
     [message |-> "timeout", status |-> 0]}

\* categorizeError(error)
categorizeError(e) ==
    LET message == toLowerCase(e.message)
    IN IF Includes(message, "fetch") \/ Includes(message, "network")
             \/ Includes(message, "connection")
       THEN "NETWORK"
       ELSE IF Includes(message, "http") \/ Includes(message, "api") \/ e.status # 0
       THEN "API"
       ELSE IF Includes(message, "validation") \/ Includes(message, "invalid")
       THEN "VALIDATION"
       ELSE "UNKNOWN"

\* formatError(error).retryable
retryable(e) == categorizeError(e) # "VALIDATION"

\* variant: the wait grows with the square of the attempt
waitTime_quadratic(options, attempt) ==
    IF options.backoff THEN options.delay * attempt * attempt ELSE options.delay

\* const waitTime = backoff ? delay * attempt : delay
waitTime(options, attempt) ==
    IF options.backoff THEN options.delay * attempt ELSE options.delay

\* the for loop is entered with attempt: fn is called if attempt <= maxAttempts,
\* otherwise the loop ends and lastError is thrown
LoopHead(r, attempt) ==
    IF attempt <= r.options.maxAttempts
    THEN [r EXCEPT !.pc = "calling", !.attempt = attempt, !.calls = r.calls + 1]
    ELSE [r EXCEPT !.pc = "thrown", !.attempt = attempt,
                   !.thrown = IF r.errors = <<>> THEN NoError ELSE r.errors[Len(r.errors)]]

\* withRetry(fn, options) up to its first await
RetryStart(options) ==
    /\ retry.pc = "idle"
    /\ retry' = LoopHead([retry EXCEPT !.options = options], 1)
    /\ UNCHANGED nonRetryVars

\* fn() resolves: return await fn()
FnResolve(value) ==
    /\ retry.pc = "calling"
    /\ retry' = [retry EXCEPT !.pc = "returned", !.result = value]
    /\ UNCHANGED nonRetryVars

\* fn() rejects: the catch block up to its throw or its await of the timer
FnReject(e) ==
    /\ retry.pc = "calling"
    /\ LET caught == [retry EXCEPT !.errors = Append(@, e)]
       IN IF retry.attempt = retry.options.maxAttempts
          THEN retry' = [caught EXCEPT !.pc = "thrown", !.thrown = e]
          ELSE IF ~retryable(e)
          THEN retry' = [caught EXCEPT !.pc = "thrown", !.thrown = e]
          ELSE retry' = [caught EXCEPT
                            !.pc = "waiting",
                            !.onRetryCalls = IF retry.options.onRetry
                                             THEN Append(@, retry.attempt) ELSE @,
                            !.waits = Append(@, waitTime(retry.options, retry.attempt))]
    /\ UNCHANGED nonRetryVars

\* the timer of the wait fires: attempt++ and the loop test
WaitDone ==
    /\ retry.pc = "waiting"
    /\ retry' = LoopHead(retry, retry.attempt + 1)
    /\ UNCHANGED nonRetryVars

RetryOptions ==
    [maxAttempts : 0..MaxAttempts, delay : {1000}, backoff : BOOLEAN, onRetry : BOOLEAN]

NextRetry ==
    \/ \E options \in RetryOptions : RetryStart(options)
    \/ \E value \in {"ok"} : FnResolve(value)
    \/ \E e \in RetryErrors : FnReject(e)
    \/ WaitDone

\* fn's promise settles and timers fire
SpecRetry == Init /\ [][NextRetry]_vars /\ WF_vars(NextRetry)

\* ================================================================ claims

\* C1: when a sendMessage starts with no session id while the createSession of
\* another sendMessage is still pending, the two issue one createSession
\* request between them and their chat requests carry the same session id.
C1_SingleFlight ==
    \A c \in Calls : \A d \in send[c].concurrent :
        /\ ~(send[c].created /\ send[d].created)
        /\ (send[c].requested /\ send[d].requested) => send[c].reqSid = send[d].reqSid

\* C2: when resetConversation completes (delete succeeded, failed or skipped)
\* the session id is none, the history is empty, the tab storage holds no
\* session id and nothing was thrown to the caller.
C2_ResetClearsEverything ==
    ev.op = "resetDone" =>
        /\ sessionId = None
        /\ conversationHistory = <<>>
        /\ storage.sid = None
        /\ ~reset[ev.id].threw

\* a reset whose server-side delete failed, with a session stored and a
\* non-empty history before it completed
C2_Witness ==
    /\ ev.op = "resetDone"
    /\ ev.err # ""
    /\ ev.pre.stored # None
    /\ ev.pre.history # <<>>
    /\ sessionId = None

\* C3: a mount that finds the reload flag not set and a session id S in tab
\* storage makes S the active session id, keeps it stored and fetches its
\* history.
C3_RestoreOnMount ==
    (ev.op = "mount" /\ ~ev.pre.flag /\ ev.pre.stored # None) =>
        /\ sessionId = ev.pre.stored
        /\ storage.sid = ev.pre.stored
        /\ hist.pc = "loading"
        /\ hist.sid = ev.pre.stored

\* C4: every chat request carries a session id; a sendMessage that started
\* with none has called createSession, issues no chat request while that is
\* pending, and its chat request carries the id createSession returned.
C4_SessionBeforeSend ==
    \A c \in Calls :
        /\ send[c].requested => send[c].reqSid # None
        /\ (send[c].pc \in {"creating", "chatting"} /\ send[c].startSid = None) =>
               send[c].created
        /\ send[c].pc = "creating" => ~send[c].requested
        /\ (send[c].requested /\ send[c].startSid = None) =>
               (send[c].createdSid # None /\ send[c].reqSid = send[c].createdSid)

\* a chat request in flight that carries the id its own createSession returned
C4_Witness ==
    \E c \in Calls :
        /\ send[c].pc = "chatting"
        /\ send[c].startSid = None
        /\ send[c].reqSid = send[c].createdSid
        /\ send[c].reqSid # None

C6_CreateFailureLeavesState ==
    ev.op = "createFail" =>
        /\ send[ev.id].pc = "failed"
        /\ ev.err # ""
        /\ error = ev.err
        /\ sessionId = ev.pre.sessionId
        /\ storage.sid = ev.pre.stored
        /\ conversationHistory = ev.pre.history
        /\ ~send[ev.id].requested
        /\ userMessage(ev.id) \notin Range(conversationHistory)
        /\ assistantMessage(ev.id) \notin Range(conversationHistory)

\* a failed session creation with no session in memory or storage
C6_Witness ==
    /\ ev.op = "createFail"
    /\ sessionId = None
    /\ storage.sid = None
    /\ send[ev.id].pc = "failed"

\* C7: when a chat response carries a session id different from the one the
\* request carried, memory and tab storage hold the response's id afterwards;
\* when it carries the same id or none, neither is changed.
C7_ResponseIdAdopted ==
    ev.op = "chatOk" =>
        IF ev.rsid # None /\ ev.rsid # ev.sent
        THEN sessionId = ev.rsid /\ storage.sid = ev.rsid
        ELSE sessionId = ev.pre.sessionId /\ storage.sid = ev.pre.stored

\* a chat response with a new id, now in memory and storage
C7_Witness ==
    /\ ev.op = "chatOk"
    /\ ev.rsid # None
    /\ ev.rsid # ev.sent
    /\ sessionId = ev.rsid
    /\ storage.sid = ev.rsid

C9_NotFoundRecovery ==
    /\ (ev.op = "historyFail" /\ hist.status = 404) =>
        /\ sessionId = None
        /\ storage.sid = None
        /\ conversationHistory = <<>>
        /\ ~hist.threw
    /\ (ev.op = "historyFail" /\ hist.status # 404) =>
        /\ sessionId = ev.pre.sessionId
        /\ storage.sid = ev.pre.stored
        /\ ~hist.threw
    /\ (ev.op = "sendStart" /\ hist.pc = "done" /\ hist.status = 404
            /\ ev.pre.sessionId = None) =>
        /\ send[ev.id].pc = "creating"
        /\ send[ev.id].created

\* after a 404 recovery a sendMessage created a session of its own and its
\* chat request carries it
C9_Witness ==
    /\ hist.pc = "done"
    /\ hist.status = 404
    /\ ev.op = "createOk"
    /\ sessionId = send[ev.id].createdSid
    /\ storage.sid = sessionId
    /\ send[ev.id].reqSid = sessionId

C11_ReconnectBound ==
    /\ reconnectAttempts \in 0..5
    /\ wsev.op = "close" =>
        /\ wsev.scheduled <=> wsev.pre.reconnectAttempts < 5
        /\ wsev.scheduled =>
            /\ reconnectAttempts = wsev.pre.reconnectAttempts + 1
            /\ wsev.delay = reconnectAttempts * 1000
            /\ wsev.delay \in DOMAIN timers
        /\ ~wsev.scheduled => reconnectAttempts = wsev.pre.reconnectAttempts
    /\ wsev.op = "open" => reconnectAttempts = 0

\* the sixth close in a row without an open: the counter is 5, nothing is scheduled
C11_Witness ==
    /\ wsev.op = "close"
    /\ wsev.pre.reconnectAttempts = 5
    /\ ~wsev.scheduled
    /\ reconnectAttempts = 5
    /\ timers = EmptyBag

\* C12: the close event of a socket that disconnect() closed schedules no
\* reconnect, and no reconnect timer opens a socket while the client is
\* disconnected (this.ws null since disconnect(), no connect() call since).
C12_DisconnectStopsReconnect ==
    /\ (wsev.op = "close" /\ wsev.byDisconnect) => ~wsev.scheduled
    /\ wsev.op = "timer" => wsev.pre.ws # 0

\* C13: send hands the message to the socket exactly when this.ws exists and
\* is OPEN; in every other state it transmits nothing and throws
\* 'WebSocket is not connected'.
C13_SendRequiresOpen ==
    wsev.op = "send" =>
        IF wsev.pre.ws # 0 /\ wsev.pre.readyState = "OPEN"
        THEN wsev.id = wsev.pre.ws /\ wsev.err = ""
        ELSE wsev.id = 0 /\ wsev.err = "WebSocket is not connected"

\* a send refused while the closed socket is still this.ws and a reconnect
\* timer is pending
C13_Witness ==
    /\ wsev.op = "send"
    /\ wsev.pre.ws # 0
    /\ wsev.pre.readyState = "CLOSED"
    /\ timers # EmptyBag
    /\ wsev.id = 0
    /\ wsev.err = "WebSocket is not connected"

\* C14: a frame of type T invokes each callback registered for T exactly once,
\* whether or not other callbacks of T throw, and no other callback; a frame
\* that is not JSON, is null, or has a type without listeners invokes
\* nothing; no error escapes the message handler.
C14_DispatchToEveryListener ==
    wsev.op = "message" =>
        /\ ~wsev.dispatch.raised
        /\ \A cb \in Callbacks :
              Len(SelectSeq(wsev.dispatch.invoked, LAMBDA x : x = cb)) =
                  IF /\ wsev.err = "object"
                     /\ wsev.dispatch.type \in MessageTypes
                     /\ cb \in Range(listeners[wsev.dispatch.type])
                  THEN 1 ELSE 0

\* a frame whose first listener throws still reaches the second one, while a
\* listener of the other type stays registered and is not called
C14_Witness ==
    /\ wsev.op = "message"
    /\ wsev.dispatch.type = "chat_response"
    /\ listeners["chat_response"] = <<2, 1>>
    /\ listeners["typing"] = <<1>>
    /\ wsev.dispatch.invoked = <<2, 1>>

\* C15: the chat request carries the query text and the session id; when the
\* location given to sendMessage has a latitude/longitude pair some field of
\* the request body holds that pair, and when it has none no field holds
\* coordinates.
C15_RequestCarriesCoordinates ==
    chatCall.made =>
        /\ requestBody.query = chatCall.message
        /\ requestBody.session_id = chatCall.sessionId
        /\ IF chatCall.location.kind = "coords"
           THEN \E k \in DOMAIN requestBody.rest :
                    requestBody.rest[k] = [lat |-> chatCall.location.latitude,
                                           lon |-> chatCall.location.longitude]
           ELSE DOMAIN requestBody.rest = {}

\* the normalized URL of the i-th reference of the message
NormalizedAt(i) == normalizeUrl(refUrl(references[i]))

\* the positions whose normalized URL occurs at no earlier position
FirstOccurrences ==
    {i \in 1..Len(references) : \A j \in 1..(i - 1) : NormalizedAt(j) # NormalizedAt(i)}

\* out lists the references at the positions idxs, in their order, numbered 1..N
IsRenumberedSelection(out, idxs) ==
    /\ Len(out) = Cardinality(idxs)
    /\ \A k \in 1..Len(out) :
          LET i == CHOOSE x \in idxs : Cardinality({y \in idxs : y <= x}) = k
          IN out[k] = [references[i] EXCEPT !.id = k]

\* C16 as stated: the output is the first occurrence of each distinct
\* normalized URL in the original order, it is no longer than the input, its
\* ids are 1..N, and deduplicating it again changes nothing.
C16_FirstOccurrences ==
    /\ IsRenumberedSelection(uniqueReferences, FirstOccurrences)
    /\ Len(uniqueReferences) <= Len(references)
    /\ \A k \in 1..Len(uniqueReferences) : uniqueReferences[k].id = k
    /\ deduplicateReferences(uniqueReferences) = uniqueReferences

\* C16 amended: the output is the first occurrence of each distinct non-empty
\* normalized URL in the original order (a reference whose normalized URL is
\* empty is left out), it is no longer than the input, its ids are 1..N, and
\* deduplicating it again changes nothing.
C16_FirstNonEmptyOccurrences ==
    /\ IsRenumberedSelection(uniqueReferences,
                             {i \in FirstOccurrences : NormalizedAt(i) # ""})
    /\ Len(uniqueReferences) <= Len(references)
    /\ \A k \in 1..Len(uniqueReferences) : uniqueReferences[k].id = k
    /\ deduplicateReferences(uniqueReferences) = uniqueReferences

\* three references: one that came with id 7, one without URL, one whose URL
\* is another spelling of the first one's; one entry with id 1 is left
C16_Witness ==
    /\ Len(references) = 3
    /\ references[1].id = 7
    /\ NormalizedAt(2) = ""
    /\ refUrl(references[3]) # refUrl(references[1])
    /\ NormalizedAt(3) = NormalizedAt(1)
    /\ Len(uniqueReferences) = 1
    /\ uniqueReferences[1] = [references[1] EXCEPT !.id = 1]

\* url is a spelling of the page URL: it differs from the others in letter
\* case, protocol, leading www., trailing slash and fragment only
IsSpelling(url) == \E shape \in UrlShapes : RenderUrl(shape) = url

\* C17: references whose URLs differ only in letter case, protocol, a leading
\* www., a trailing slash, a fragment, or a combination of these have the same
\* normalized URL, and at most one of them is in the deduplicated list.
C17_SpellingsCollapse ==
    /\ \A i, j \in 1..Len(references) :
          (IsSpelling(refUrl(references[i])) /\ IsSpelling(refUrl(references[j])))
              => NormalizedAt(i) = NormalizedAt(j)
    /\ Cardinality({k \in 1..Len(uniqueReferences) :
                       IsSpelling(refUrl(uniqueReferences[k]))}) <= 1

\* C18: when some reference's title or section equals the header text without
\* regard to case, the header is linked to the URL of the first such
\* reference, whatever partial matches come before it.
C18_ExactMatchPreferred ==
    LET headerLower == trim(toLowerCase(headerText))
        exact == {i \in 1..Len(references) : exactMatch(references[i], headerLower)}
    IN (headerText # "" /\ exact # {}) => headerUrl = returnedUrl(references[First(exact)])

RECURSIVE Flatten(_)
\* the grouped output with each group replaced by its items and each numbered
\* item followed by its subItems
Flatten(out) ==
    IF out = <<>> THEN <<>>
    ELSE LET g == Head(out)
         IN (IF g.type = "numbered_group"
             THEN <<[type |-> g.items[1].type, id |-> g.items[1].id]>> \o g.items[1].subItems
             ELSE IF g.type = "bullet_group" THEN g.items
             ELSE <<g>>) \o Flatten(Tail(out))

\* the flattened output takes its segments from the input, each at most once
\* and in the input order
InInputOrder(flat) ==
    /\ \A k \in 1..Len(flat) : flat[k].id \in 1..Len(segments) /\ flat[k] = segments[flat[k].id]
    /\ \A k \in 1..(Len(flat) - 1) : flat[k].id < flat[k + 1].id

\* the position after i of the first segment that is neither bullet nor
\* linebreak (one past the end if there is none)
StopAfter(i) ==
    First({k \in (i + 1)..(Len(segments) + 1) :
              k = Len(segments) + 1 \/ segments[k].type \notin {"bullet", "linebreak"}})

\* the positions between a numbered segment and the end of its look-ahead
Span(i) == (i + 1)..(StopAfter(i) - 1)

\* the linebreaks in the span of a numbered segment that has a bullet in its span
SkippedLinebreaks ==
    {k \in 1..Len(segments) :
        /\ segments[k].type = "linebreak"
        /\ \E i \in 1..(k - 1) :
              /\ segments[i].type = "numbered"
              /\ k \in Span(i)
              /\ \E b \in Span(i) : segments[b].type = "bullet"}

\* C19 as stated: the flattened output is the input: every segment exactly
\* once, in the input order.
C19_FlattenIsInput == Flatten(grouped) = segments

\* C19 amended: the flattened output contains every input segment that is not
\* a linebreak exactly once, all in the input order; the only segments left
\* out are the linebreaks between a numbered item that absorbed a bullet and
\* the segment that ended its look-ahead.
C19_FlattenKeepsAllButSkippedLinebreaks ==
    /\ InInputOrder(Flatten(grouped))
    /\ {Flatten(grouped)[k].id : k \in 1..Len(Flatten(grouped))} =
           (1..Len(segments)) \ SkippedLinebreaks

\* a numbered item, a linebreak, a bullet, a linebreak, a paragraph: both
\* linebreaks are gone, the other three segments are kept in order
C19_Witness ==
    /\ Len(segments) = 5
    /\ [k \in 1..5 |-> segments[k].type] =
           <<"numbered", "linebreak", "bullet", "linebreak", "paragraph">>
    /\ [k \in 1..Len(Flatten(grouped)) |-> Flatten(grouped)[k].id] = <<1, 3, 5>>

\* the numbered_groups of the output, in order
NumberedGroups == SelectSeq(grouped, LAMBDA g : g.type = "numbered_group")

\* the positions of the numbered segments of the input, in order
NumberedPositions ==
    SelectSeq([k \in 1..Len(segments) |-> k], LAMBDA k : segments[k].type = "numbered")

\* C20: each numbered segment is the only item of a numbered_group of its
\* own; its subItems are the bullets between it and the first following
\* segment that is neither bullet nor linebreak, in order (none if there is
\* no such bullet); bullets after that segment are not among them.
C20_NumberedAbsorbsFollowingBullets ==
    /\ Len(NumberedGroups) = Len(NumberedPositions)
    /\ \A n \in 1..Len(NumberedGroups) :
          LET i == NumberedPositions[n]
              item == NumberedGroups[n].items[1]
          IN /\ Len(NumberedGroups[n].items) = 1
             /\ item.id = i
             /\ item.type = "numbered"
             /\ item.subItems =
                   SelectSeq(SubSeq(segments, i + 1, StopAfter(i) - 1),
                             LAMBDA x : x.type = "bullet")
             /\ \A k \in StopAfter(i)..Len(segments) :
                   segments[k] \notin Range(item.subItems)

\* a numbered item takes the bullet behind a linebreak; the bullet after the
\* paragraph forms a group of its own
C20_Witness ==
    /\ Len(segments) = 5
    /\ [k \in 1..5 |-> segments[k].type] =
           <<"numbered", "linebreak", "bullet", "paragraph", "bullet">>
    /\ grouped = <<numberedGroup(segments[1], <<segments[3]>>), segments[4],
                   bulletGroup(<<segments[5]>>)>>

\* C30: when no reference's title or section equals the header text and none
\* shares a word longer than three characters with it (a header without such
\* words included), the header is linked to no URL (null, or the undefined
\* URL of a reference without one).
C30_NoEvidenceNoMatch ==
    LET headerLower == trim(toLowerCase(headerText))
        headerWords == keyWords(headerLower)
    IN (\A i \in 1..Len(references) :
            /\ ~exactMatch(references[i], headerLower)
            /\ countMatches(headerWords, keyWords(toLowerCase(references[i].title))) = 0
            /\ countMatches(headerWords,
                            keyWords(toLowerCase(refSection(references[i])))) = 0)
       => headerUrl \in {"null", "undefined"}

\* C28: after connect(conversationId) with a conversation id, the socket a
\* reconnect timer opens is for the URL of that conversation id.
C28_ReconnectSameEndpoint ==
    (wsev.op = "timer" /\ wsev.target # "") => sockets[wsev.id].cid = wsev.target

\* at most one reconnect timer is pending
AtMostOneTimer ==
    /\ Cardinality(DOMAIN timers) <= 1
    /\ \A d \in DOMAIN timers : timers[d] <= 1

\* the sockets that are open or connecting
LiveSockets == {k \in 1..MaxSockets : sockets[k].readyState \in {"CONNECTING", "OPEN"}}

\* C29: the client never has more than one socket open or connecting and
\* never more than one reconnect timer pending.
C29_SingleConnection ==
    /\ Cardinality(LiveSockets) <= 1
    /\ AtMostOneTimer

\* C26: when resetConversation completed while a sendMessage call was pending,
\* the later resolution of that call's createSession or chat request leaves
\* the session id none in memory and in storage and the history empty.
C26_ResetWinsOverPendingSend ==
    (ev.op \in {"createOk", "chatOk"} /\ ~ev.kept) =>
        /\ sessionId = None
        /\ storage.sid = None
        /\ conversationHistory = <<>>

\* no session operation is between its steps: the mount effect has run, no
\* sendMessage, resetConversation or history load is pending
Quiescent ==
    /\ mounted
    /\ \A c \in Calls : send[c].pc \notin {"creating", "chatting"}
    /\ \A r \in Resets : reset[r].pc # "deleting"
    /\ hist.pc # "loading"

\* C27: whenever no session operation is between its steps, the session id in
\* memory equals the session id in tab storage.
C27_MemoryStorageMirror == Quiescent => sessionId = storage.sid

\* all operations have finished, the last one a chat response that carried a
\* session id other than the one sent, after an earlier reset
C27_Witness ==
    /\ Quiescent
    /\ ev.op = "chatOk"
    /\ ev.rsid # None
    /\ ev.rsid # ev.sent
    /\ \E r \in Resets : reset[r].pc = "done"
    /\ sessionId = ev.rsid
    /\ storage.sid = ev.rsid

\* what a withRetry call has done is within its contract
RetryContract ==
    LET o == retry.options
    IN /\ retry.calls <= o.maxAttempts
       /\ retry.calls = Len(retry.errors) + (IF retry.pc \in {"calling", "returned"} THEN 1 ELSE 0)
       /\ \A k \in 1..(Len(retry.errors) - 1) : retryable(retry.errors[k])
       /\ Len(retry.waits) = (IF retry.pc = "waiting" THEN retry.calls
                               ELSE IF retry.calls = 0 THEN 0 ELSE retry.calls - 1)
       /\ \A k \in 1..Len(retry.waits) :
             retry.waits[k] = IF o.backoff THEN o.delay * k ELSE o.delay
       /\ retry.onRetryCalls =
             IF o.onRetry THEN [k \in 1..Len(retry.waits) |-> k] ELSE <<>>
       /\ retry.pc = "returned" => retry.result = "ok"
       /\ retry.pc = "waiting" =>
             retryable(retry.errors[Len(retry.errors)]) /\ retry.calls < o.maxAttempts
       /\ (retry.pc = "thrown" /\ retry.calls > 0) =>
             /\ retry.thrown = retry.errors[Len(retry.errors)]
             /\ retry.calls = o.maxAttempts \/ ~retryable(retry.thrown)

\* C24: withRetry calls fn at most maxAttempts times; it returns the first
\* success without further calls, rethrows a non-retryable error at once,
\* rethrows the last error when all maxAttempts calls failed, waits delay x k
\* (backoff) or delay (no backoff) after failed attempt k and calls onRetry
\* once per retry; and it always ends by returning or throwing.
C24_WithRetryTerminates ==
    /\ []RetryContract
    /\ <>(retry.pc \in {"returned", "thrown"})

\* three attempts with backoff: two retryable failures, waits of 1000 and
\* 2000 ms with onRetry each time, then the third call fails with a
\* validation error, which is rethrown
C24_Witness ==
    /\ retry.pc = "thrown"
    /\ retry.options.maxAttempts = 3
    /\ retry.options.backoff
    /\ retry.options.onRetry
    /\ retry.calls = 3
    /\ retry.waits = <<1000, 2000>>
    /\ retry.onRetryCalls = <<1, 2>>
    /\ ~retryable(retry.thrown)

\* C25: every handleClose has incremented resetTrigger and has led to one
\* resetConversation() call of the chat window's session hook, with a delete
\* request when a session was active; no session is active in a window
\* opened after a close.
C25_CloseResetsConversation ==
    /\ resetTrigger = widget.closes
    /\ widget.resets = widget.closes
    /\ (widget.closes > 0 /\ widget.closedSession) => widget.deletes > 0

\* the line is a bold pair around plain text and at least one markdown link
BoldWrapsLink ==
    /\ Len(inlineTokens) >= 3
    /\ inlineTokens[1] = "**" /\ inlineTokens[Len(inlineTokens)] = "**"
    /\ \A i \in 2..(Len(inlineTokens) - 1) : inlineTokens[i] \in PlainTokens \cup LinkTokens
    /\ \E i \in 2..(Len(inlineTokens) - 1) : inlineTokens[i] \in LinkTokens

IsBold(span) == \E f \in 1..Len(span.appliedFormats) : span.appliedFormats[f] = "bold"

\* C21: for a markdown link enclosed by bold markers the span list has a link
\* span for it whose appliedFormats includes 'bold', the other enclosed text
\* is bold, and no span content holds a '**' marker.
C21_BoldWrappingLink ==
    BoldWrapsLink =>
        /\ \E i \in 1..Len(inlineSpans) :
               /\ inlineSpans[i].type = "link"
               /\ inlineSpans[i].content = "docs" /\ inlineSpans[i].url = "u"
        /\ \A i \in 1..Len(inlineSpans) :
               /\ IsBold(inlineSpans[i])
               /\ ~Includes(inlineSpans[i].content, "**")

\* the segments the first n lines of the message give, and those line i adds
SegmentsOf(n) == classify(join(SubSeq(lines, 1, n), "\n"))
EmittedBy(i) == SubSeq(SegmentsOf(i), Len(SegmentsOf(i - 1)) + 1, Len(SegmentsOf(i)))
Types(segs) == [k \in 1..Len(segs) |-> segs[k].type]

\* what a line of a run gives under the collapsing rule: the first line of the
\* run one linebreak if a segment was emitted before it, any other line nothing
Collapsed(i, inRun(_)) ==
    IF (i = 1 \/ ~inRun(lines[i - 1])) /\ Len(SegmentsOf(i - 1)) > 0
    THEN <<"linebreak">> ELSE <<>>

\* C22: a run of blank lines gives exactly one linebreak segment when a
\* segment was emitted before it and none at the start of the message; a
\* message of blank lines only gives no segment.
C22_BlankLineCollapsing ==
    /\ segments = SegmentsOf(Len(lines))
    /\ \A i \in 1..Len(lines) :
           isEmptyLine(lines[i]) => Types(EmittedBy(i)) = Collapsed(i, isEmptyLine)
    /\ (\A i \in 1..Len(lines) : isEmptyLine(lines[i])) => segments = <<>>

\* a paragraph followed by a run of two blank lines has given one linebreak
C22_Witness ==
    /\ Len(lines) = 3
    /\ ~isEmptyLine(lines[1]) /\ isEmptyLine(lines[2]) /\ isEmptyLine(lines[3])
    /\ Types(segments) = <<"paragraph", "linebreak">>

\* C23: a run of horizontal-rule lines gives one linebreak segment, a rule
\* before any other segment gives none, and the classified sequence never
\* starts with a linebreak.
C23_RuleCollapsing ==
    /\ \A i \in 1..Len(lines) :
           isRule(lines[i]) => Types(EmittedBy(i)) = Collapsed(i, isRule)
    /\ Len(segments) > 0 => segments[1].type # "linebreak"

====
